---- MODULE Spec2Model ----
(***************************************************************************)
(* Model of FormStateProvider (src/src/formStateProvider.ts): the form     *)
(* state controller of react-form-enhancer, with the handler engine it     *)
(* imports (invokeHandler, mergeErrors, sanitizeErrors) and the test of a  *)
(* field name (isDefinedName), whose bodies are not in the source tree and *)
(* are modelled from their declarations and their description.             *)
(*                                                                         *)
(* this.state is the committed component state; setState is the write the  *)
(* component requests. Inside a UI event handler the writes of setState    *)
(* are batched: this.state keeps its old value until the handler returns   *)
(* (Flush), and the partial states are merged in call order. Outside a     *)
(* handler (promise callbacks, timers) a write is applied at once.         *)
(***************************************************************************)
EXTENDS Integers, Sequences, FiniteSets, TLC

\* Bound on the number of validator/submitter promises in flight.
MaxPending == 2
\* Bound on the number of calls one UI event handler makes.
MaxBatch == 2

(***************************************************************************)
(* props                                                                   *)
(***************************************************************************)
\* props.defaultValues: one entry per declared field.
defaultValues == [email |-> "", age |-> "0"]

Fields == DOMAIN defaultValues
\* keys of FormErrors<P>: the declared fields and the pseudo-key 'form'
Keys == Fields \cup {"form"}
\* values a caller can assign to a field
Vals == {"", "0"}
\* names a caller can pass to formChange / formValidate ("nick" is undeclared)
Names == Fields \cup {"nick"}

(***************************************************************************)
(* Raw error payloads (newErrors: any) and canonical error entries.        *)
(* kind "null": null/undefined; "message": a single message;               *)
(* "fields": a structured per-field object whose key set is keys;          *)
(* "absent": the key is missing from the object.                           *)
(***************************************************************************)
NullRaw == [kind |-> "null", msg |-> "", keys |-> {}]
Absent == [kind |-> "absent", msg |-> "", keys |-> {}]
Message(m) == [kind |-> "message", msg |-> m, keys |-> {}]
Structured(m, K) == [kind |-> "fields", msg |-> m, keys |-> K]
\* the mapping without entries, {}
EmptyErrors == Structured("", {})

\* rejection payloads a validator or the submitter can produce
Reasons == {Message("too young"), Structured("server error", {"form", "general"})}

\* errors: {}
NoErrors == [k \in Keys |-> Absent]

\* the state the constructor builds
InitialState == [values |-> defaultValues, errors |-> NoErrors, isSubmitting |-> FALSE]

\* props.validators: an object (registry) with a validator for age, none for email
validators == [registry |-> TRUE, has |-> {"age"}]

\* what a validator/submitter call produces: a plain result, a throw, a promise
HandlerResults ==
  {[kind |-> "return", reason |-> NullRaw], [kind |-> "promise", reason |-> NullRaw]}
    \cup {[kind |-> "throw", reason |-> r] : r \in Reasons}
\* how a promise settles
Settlements ==
  {[kind |-> "fulfilled", reason |-> NullRaw]} \cup {[kind |-> "rejected", reason |-> r] : r \in Reasons}

\* the record of the last operation, for observation only
\* op: the operation; key: its name argument; invoked: validator/submitter calls
\* made; result: what the handler call produced; failure: the value it threw or
\* rejected with; onResolve, onReject: callbacks called; reason: the argument of
\* onReject; escaped: an exception left the operation; wasDirty (of a reset):
\* this.state before the operation; value: the newValue argument of a change,
\* the value the settled promise was started for;
\* snapshot: the values handed to the validator/submitter (when invoked > 0);
\* writes: the fields named by the setState calls of the operation, in call
\* order; afterReset: the operation directly follows a reset that called setState
NoOp ==
  [op |-> "none", key |-> "", invoked |-> 0, result |-> "none", failure |-> NullRaw,
   onResolve |-> 0, onReject |-> 0, reason |-> NullRaw, escaped |-> FALSE,
   wasDirty |-> FALSE, value |-> "", snapshot |-> defaultValues, writes |-> <<>>,
   afterReset |-> FALSE]

VARIABLES
  state,                 \* this.state: [values, errors, isSubmitting]
  queued,                \* the state the batched setState calls will commit
  batch,                 \* calls made by the running UI event handler, 0 outside one
  canSetStateFromAsync,  \* the mounted flag
  lifecycle,             \* "constructed", "mounted", "unmounted"
  pending,               \* promises in flight, in the order started
  last,                  \* observation of the last operation
  recording              \* observation: promises are recorded with the value validated

\* inside a UI event handler, setState is deferred
batching == batch > 0

vars == <<state, queued, batch, canSetStateFromAsync, lifecycle, pending, last, recording>>

(***************************************************************************)
(* handlerEngine and definitionChecker                                     *)
(***************************************************************************)
isDefinedName(definition, name) == name \in DOMAIN definition

sanitizeErrors(definition, newErrors, isForm) ==
  LET allowed == DOMAIN definition \cup (IF isForm THEN {"form"} ELSE {})
  IN CASE newErrors.kind = "message" -> newErrors
       [] newErrors.kind = "fields" ->
            IF newErrors.keys \cap allowed = {} THEN EmptyErrors
            ELSE Structured(newErrors.msg, newErrors.keys \cap allowed)
       [] OTHER -> EmptyErrors

mergeErrors(definition, oldError, name, newErrors) ==
  LET sanitized == sanitizeErrors(definition, newErrors, name = "form")
      entry == IF sanitized = EmptyErrors THEN NullRaw ELSE sanitized
  IN [oldError EXCEPT ![name] = entry]

\* invokeHandler that calls nothing for a plain result
invokeHandler_DropsPlain(result) ==
  CASE result.kind = "fulfilled" ->
         [calls |-> <<[cb |-> "onResolve", reason |-> NullRaw]>>, thrown |-> FALSE]
    [] result.kind \in {"throw", "rejected"} ->
         [calls |-> <<[cb |-> "onReject", reason |-> result.reason]>>, thrown |-> FALSE]
    [] OTHER -> [calls |-> <<>>, thrown |-> FALSE]

\* invokeHandler for a result of handle(): the callbacks it calls, in order, and
\* whether an exception leaves it
invokeHandler(result) ==
  CASE result.kind \in {"return", "fulfilled"} ->
         [calls |-> <<[cb |-> "onResolve", reason |-> NullRaw]>>, thrown |-> FALSE]
    [] result.kind \in {"throw", "rejected"} ->
         [calls |-> <<[cb |-> "onReject", reason |-> result.reason]>>, thrown |-> FALSE]
    [] OTHER -> [calls |-> <<>>, thrown |-> FALSE]

(***************************************************************************)
(* The component. c is the component during one handler:                   *)
(* [state, queued, batching, canSetStateFromAsync, pending, last].         *)
(***************************************************************************)
Assign(s, partial) == [k \in DOMAIN s |-> IF k \in DOMAIN partial THEN partial[k] ELSE s[k]]

setState(c, partial) ==
  IF c.batching
    THEN [c EXCEPT !.queued = Assign(@, partial), !.last.writes = Append(@, DOMAIN partial)]
    ELSE [c EXCEPT !.state = Assign(@, partial), !.queued = Assign(c.state, partial),
                   !.last.writes = Append(@, DOMAIN partial)]

\* Map(values).set(name, newValue).toJS()
MapSet(values, name, newValue) ==
  [k \in DOMAIN values \cup {name} |-> IF k = name THEN newValue ELSE values[k]]

RECURSIVE pristineFrom(_, _)
pristineFrom(names, values) ==
  IF names = {} THEN TRUE
  ELSE LET name == CHOOSE n \in names : TRUE
       IN IF values[name] # defaultValues[name] THEN FALSE
          ELSE pristineFrom(names \ {name}, values)

isPristine(s) == pristineFrom(DOMAIN s.values, s.values)

\* Object.keys(this.state.errors)
ErrorKeys(errors) == {k \in DOMAIN errors : errors[k].kind # "absent"}

RECURSIVE errorFrom(_, _)
errorFrom(names, errors) ==
  IF names = {} THEN FALSE
  ELSE LET name == CHOOSE n \in names : TRUE
       IN IF errors[name].kind \notin {"null", "absent"} THEN TRUE
          ELSE errorFrom(names \ {name}, errors)

\* hasError counting every present key
hasError_Present(s) == ErrorKeys(s.errors) # {}

hasError(s) == errorFrom(ErrorKeys(s.errors), s.errors)

\* updateErrors without the mounted test
updateErrors_Unguarded(c, name, newErrors) ==
  setState(c, [errors |-> mergeErrors(defaultValues, c.state.errors, name, newErrors)])

\* updateErrors merging into an empty error map
updateErrors_Fresh(c, name, newErrors) ==
  IF c.canSetStateFromAsync
    THEN setState(c, [errors |-> mergeErrors(defaultValues, NoErrors, name, newErrors)])
    ELSE c

\* updateErrors keeping the entry a completion already wrote for the key
updateErrors_FirstWins(c, name, newErrors) ==
  IF c.canSetStateFromAsync /\ c.state.errors[name].kind = "absent"
    THEN setState(c, [errors |-> mergeErrors(defaultValues, c.state.errors, name, newErrors)])
    ELSE c

updateErrors(c, name, newErrors) ==
  IF c.canSetStateFromAsync
    THEN setState(c, [errors |-> mergeErrors(defaultValues, c.state.errors, name, newErrors)])
    ELSE c

endSubmitting(c) ==
  IF c.canSetStateFromAsync THEN setState(c, [isSubmitting |-> FALSE]) ELSE c

\* onResolve emptying the error map instead of clearing the field
validatorCallback_ClearsAll(c, name, call) ==
  IF call.cb = "onResolve"
    THEN (IF c.canSetStateFromAsync THEN setState(c, [errors |-> NoErrors]) ELSE c)
    ELSE updateErrors(c, name, call.reason)

\* the onResolve / onReject closures invokeValidator passes
validatorCallback(c, name, call) ==
  IF call.cb = "onResolve" THEN updateErrors(c, name, NullRaw)
  ELSE updateErrors(c, name, call.reason)

\* the closures of submit with their two calls in the other order
submitCallback_EndsFirst(c, call) ==
  IF call.cb = "onResolve" THEN updateErrors(endSubmitting(c), "form", NullRaw)
  ELSE updateErrors(endSubmitting(c), "form", call.reason)

\* the onResolve / onReject closures submit passes
submitCallback(c, call) ==
  IF call.cb = "onResolve" THEN endSubmitting(updateErrors(c, "form", NullRaw))
  ELSE endSubmitting(updateErrors(c, "form", call.reason))

\* invokeHandler calling back into the component
Observe(c, call) ==
  [c EXCEPT !.last.onResolve = @ + (IF call.cb = "onResolve" THEN 1 ELSE 0),
            !.last.onReject = @ + (IF call.cb = "onReject" THEN 1 ELSE 0),
            !.last.reason = IF call.cb = "onReject" THEN call.reason ELSE @]

RECURSIVE deliver(_, _, _)
deliver(c, name, calls) ==
  IF calls = <<>> THEN c
  ELSE LET seen == Observe(c, Head(calls))
           after == IF name = "form" THEN submitCallback(seen, Head(calls))
                    ELSE validatorCallback(seen, name, Head(calls))
       IN deliver(after, name, Tail(calls))

\* invokeHandler(name, handle, onResolve, onReject, notify) with handle() giving result
engine(c, name, result) ==
  LET run == invokeHandler(result)
      seen == [c EXCEPT !.last.result = result.kind, !.last.failure = result.reason,
                        !.last.escaped = run.thrown]
  IN deliver(seen, name, run.calls)

\* a promise in flight: the key it was started for and, when recording, the
\* value of that field in the snapshot its handler was called with
Run(name, snap) ==
  [key |-> name, value |-> IF recording /\ name \in DOMAIN snap THEN snap[name] ELSE ""]

\* handle() runs: the validator/submitter is called with the snapshot snap
Started(c, name, snap, result) ==
  [c EXCEPT !.last.invoked = @ + 1,
            !.last.snapshot = snap,
            !.pending = IF result.kind = "promise" THEN Append(@, Run(name, snap)) ELSE @]

invokeValidator(c, name, newValue, result) ==
  IF ~validators.registry THEN c
  ELSE IF name \notin validators.has THEN c
  ELSE LET currentValues == MapSet(c.state.values, name, newValue)
       IN engine(Started(c, name, currentValues, result), name, result)

\* change without the test of the name
change_Unchecked(c, name, newValue, validateConcurrently, result) ==
  LET written == setState(c, [values |-> MapSet(c.state.values, name, newValue)])
  IN IF validateConcurrently THEN invokeValidator(written, name, newValue, result)
     ELSE written

change(c, name, newValue, validateConcurrently, result) ==
  IF isDefinedName(defaultValues, name)
    THEN LET written == setState(c, [values |-> MapSet(c.state.values, name, newValue)])
         IN IF validateConcurrently THEN invokeValidator(written, name, newValue, result)
            ELSE written
    ELSE c

validate(c, name, result) ==
  IF isDefinedName(defaultValues, name)
    THEN invokeValidator(c, name, c.state.values[name], result)
    ELSE c

\* submit that does not raise isSubmitting
submit_NotSubmitting(c, result) ==
  engine(Started(c, "form", c.state.values, result), "form", result)

submit(c, result) ==
  LET submitting == setState(c, [isSubmitting |-> TRUE])
  IN engine(Started(submitting, "form", submitting.state.values, result), "form", result)

\* reset to the constructor's fallback, an object without fields
reset_EmptyValues(c) ==
  IF c.canSetStateFromAsync
    THEN setState(c, [values |-> [name \in {} |-> ""], errors |-> NoErrors,
                      isSubmitting |-> FALSE])
    ELSE c

\* reset dropping the promises in flight
reset_Cancels(c) ==
  IF c.canSetStateFromAsync
    THEN [setState(c, [values |-> defaultValues, errors |-> NoErrors, isSubmitting |-> FALSE])
            EXCEPT !.pending = <<>>]
    ELSE c

\* reset without the mounted test
reset_Unguarded(c) ==
  setState(c, [values |-> defaultValues, errors |-> NoErrors, isSubmitting |-> FALSE])

\* reset leaving isSubmitting as it is
reset_KeepsSubmitting(c) ==
  IF c.canSetStateFromAsync
    THEN setState(c, [values |-> defaultValues, errors |-> NoErrors])
    ELSE c

reset(c) ==
  IF c.canSetStateFromAsync
    THEN setState(c, [values |-> defaultValues, errors |-> NoErrors, isSubmitting |-> FALSE])
    ELSE c

(***************************************************************************)
(* Steps                                                                   *)
(***************************************************************************)
\* the component as a handler finds it; batched: the call comes from a UI event handler
Entering(op, key, batched) ==
  [state |-> state, queued |-> queued, batching |-> batched,
   canSetStateFromAsync |-> canSetStateFromAsync, pending |-> pending,
   last |-> [NoOp EXCEPT !.op = op, !.key = key,
                         !.wasDirty = (op = "reset" /\ state # InitialState),
                         !.afterReset = (last.op = "reset" /\ last.writes # <<>>)]]

Leave(c) ==
  /\ state' = c.state
  /\ queued' = c.queued
  /\ batch' = IF c.batching THEN batch + 1 ELSE 0
  /\ pending' = c.pending
  /\ last' = c.last
  /\ UNCHANGED <<canSetStateFromAsync, lifecycle, recording>>

\* the props functions are handed out by render, so after mount; a UI event
\* handler (batched) runs only while the form is mounted
Callable(batched) ==
  /\ lifecycle \in {"mounted", "unmounted"}
  /\ batching => batched
  /\ batched => lifecycle = "mounted" /\ batch < MaxBatch

InFlightRoom(result) == result.kind = "promise" => Len(pending) < MaxPending

\* the results to enumerate for a call: all of them when a handler will run
ResultsFor(name, runs) ==
  IF runs /\ (name = "form" \/ (name \in Fields /\ validators.registry /\ name \in validators.has))
    THEN HandlerResults
    ELSE {[kind |-> "return", reason |-> NullRaw]}

Constructed ==
  /\ state = InitialState
  /\ queued = InitialState
  /\ batch = 0
  /\ canSetStateFromAsync = FALSE
  /\ lifecycle = "constructed"
  /\ pending = <<>>
  /\ last = NoOp

Init == Constructed /\ recording = FALSE

\* the same component, observed with the value each promise validates
InitRuns == Constructed /\ recording = TRUE

componentWillMount ==
  /\ lifecycle = "constructed"
  /\ canSetStateFromAsync' = TRUE
  /\ lifecycle' = "mounted"
  /\ last' = [NoOp EXCEPT !.op = "mount"]
  /\ UNCHANGED <<state, queued, batch, pending, recording>>

componentWillUnmount ==
  /\ lifecycle = "mounted"
  /\ ~batching
  /\ canSetStateFromAsync' = FALSE
  /\ lifecycle' = "unmounted"
  /\ last' = [NoOp EXCEPT !.op = "unmount"]
  /\ UNCHANGED <<state, queued, batch, pending, recording>>

Change ==
  \E name \in Names, newValue \in Vals, validateConcurrently \in BOOLEAN, batched \in BOOLEAN :
   \E result \in ResultsFor(name, validateConcurrently) :
    /\ Callable(batched)
    /\ InFlightRoom(result)
    /\ LET c == [Entering("change", name, batched) EXCEPT !.last.value = newValue]
       IN Leave(change(c, name, newValue, validateConcurrently, result))

Validate ==
  \E name \in Names, batched \in BOOLEAN :
   \E result \in ResultsFor(name, TRUE) :
    /\ Callable(batched)
    /\ InFlightRoom(result)
    /\ Leave(validate(Entering("validate", name, batched), name, result))

Submit ==
  \E result \in HandlerResults, batched \in BOOLEAN :
    /\ Callable(batched)
    /\ InFlightRoom(result)
    /\ Leave(submit(Entering("submit", "form", batched), result))

Reset ==
  \E batched \in BOOLEAN :
    /\ Callable(batched)
    /\ Leave(reset(Entering("reset", "form", batched)))

\* the UI event handler returns: the batched writes are committed
Flush ==
  /\ batching
  /\ state' = queued
  /\ batch' = 0
  /\ last' = [NoOp EXCEPT !.op = "flush"]
  /\ UNCHANGED <<queued, canSetStateFromAsync, lifecycle, pending, recording>>

RemoveAt(s, i) == SubSeq(s, 1, i - 1) \o SubSeq(s, i + 1, Len(s))

\* a promise in flight settles and invokeHandler calls back
Settle ==
  \E i \in 1..Len(pending), settlement \in Settlements :
    /\ ~batching
    /\ LET c == [Entering("settle", pending[i].key, FALSE)
                   EXCEPT !.pending = RemoveAt(@, i), !.last.value = pending[i].value]
       IN Leave(engine(c, pending[i].key, settlement))

Next ==
  \/ componentWillMount
  \/ componentWillUnmount
  \/ Change
  \/ Validate
  \/ Submit
  \/ Reset
  \/ Flush
  \/ Settle

Spec == Init /\ [][Next]_vars

SpecRuns == InitRuns /\ [][Next]_vars

TypeOK ==
  /\ state.values \in [Fields -> Vals]
  /\ DOMAIN state.errors = Keys
  /\ state.isSubmitting \in BOOLEAN
  /\ Len(pending) <= MaxPending
  /\ batch \in 0..MaxBatch
  /\ ~batching => queued = state

(***************************************************************************)
(* Properties                                                              *)
(***************************************************************************)
IsError(entry) == entry.kind \notin {"null", "absent"}

\* the entry a merge of newErrors for name leaves at name
Recorded(name, newErrors) == mergeErrors(defaultValues, NoErrors, name, newErrors)[name]

\* the last operation called back while the mounted flag was set
DeliveredMounted == canSetStateFromAsync /\ last.onResolve + last.onReject > 0

\* C1: a validator or submitter promise that settles after unmount leaves
\* values, errors and isSubmitting as they were, whatever else is in flight.
C1_PostUnmountSilence ==
  [][(lifecycle = "unmounted" /\ last'.op = "settle") => (state' = state /\ queued' = queued)]_vars

C1_Witness ==
  /\ lifecycle = "unmounted"
  /\ last.op = "settle"
  /\ last.onReject = 1
  /\ pending # <<>>
  /\ state.isSubmitting

\* C2: after unmount, change, validate and submit are no-ops: they change
\* none of values, errors, isSubmitting and call no validator or submitter.
C2_NoOpAfterUnmount ==
  [][(lifecycle = "unmounted" /\ last'.op \in {"change", "validate", "submit"})
       => (state' = state /\ last'.invoked = 0 /\ pending' = pending)]_vars

\* C3: every invocation through invokeHandler gets exactly one of onResolve and
\* onReject, once: at once for a synchronous result, at the settlement for a
\* promise, which is in flight until then.
C3_ExactlyOneCallback ==
  /\ last.invoked <= 1
  /\ last.result \in {"return", "throw", "fulfilled", "rejected"}
       => last.onResolve + last.onReject = 1
  /\ last.result \in {"return", "fulfilled"} => last.onResolve = 1
  /\ last.result = "promise"
       => last.onResolve + last.onReject = 0 /\ \E i \in 1..Len(pending) : pending[i].key = last.key
  /\ last.result = "none" => last.onResolve + last.onReject = 0

C3_Witness ==
  /\ last.op = "settle"
  /\ last.result = "rejected"
  /\ last.onReject = 1
  /\ last.onResolve = 0

\* C4: a throw or a rejection of a validator or of the submitter does not leave
\* the operation as an exception; onReject gets the value, once, and while
\* mounted the value (as merged) is what errors holds for the key: at once
\* outside a UI event handler, and after the handler's commit inside one, also
\* when the handler goes on to call an operation on another key.
C4_Failed == last.result \in {"throw", "rejected"}

C4_RejectRecorded ==
  [][/\ (C4_Failed => (~last.escaped /\ last.onReject = 1 /\ last.onResolve = 0
                         /\ last.reason = last.failure))'
     /\ (C4_Failed /\ canSetStateFromAsync /\ ~batching
           => state.errors[last.key] = Recorded(last.key, last.failure))'
     /\ (C4_Failed /\ canSetStateFromAsync /\ batching /\ last'.op = "flush")
           => state'.errors[last.key] = Recorded(last.key, last.failure)
     /\ (C4_Failed /\ canSetStateFromAsync /\ batching
           /\ last'.op \in {"change", "validate", "submit"} /\ last'.key # last.key)
           => queued'.errors[last.key] = Recorded(last.key, last.failure)]_vars

\* C5: the error map a completion for one key writes while mounted agrees with
\* the error map before it on every other key.
C5_MergeLocality ==
  [][DeliveredMounted'
       => \A other \in Keys \ {last'.key} : queued'.errors[other] = state.errors[other]]_vars

C5_Witness ==
  /\ last.op = "settle"
  /\ last.key = "age"
  /\ last.onReject = 1
  /\ canSetStateFromAsync
  /\ ~batching
  /\ IsError(state.errors["age"])
  /\ IsError(state.errors["form"])

C7_ResetRestores ==
  /\ [](last.op = "reset" /\ lifecycle = "mounted"
          => queued = InitialState /\ (~batching => state = InitialState))
  /\ [][(last.op = "reset" /\ lifecycle = "mounted" /\ last'.op = "flush")
          => state' = InitialState]_vars
  /\ [][(last.op = "reset" /\ last'.op = "reset" /\ lifecycle' = "mounted")
          => (state' = state /\ queued' = queued)]_vars

C7_Witness ==
  /\ last.op = "reset"
  /\ last.wasDirty
  /\ lifecycle = "mounted"
  /\ ~batching
  /\ state = InitialState
  /\ pending # <<>>

\* every field of s holds its default value
AllDefault(s) == \A name \in Fields : s.values[name] = defaultValues[name]

\* C8: isPristine is true exactly when every field holds its default value, and
\* a change of a field back to its default, when the changes before it have put
\* every other field back to its default, makes isPristine true (inside a UI
\* event handler: of the state the handler's return commits).
C8_PristineRoundTrip ==
  [][/\ (isPristine(state) <=> AllDefault(state))'
     /\ (/\ last'.op = "change"
         /\ last'.key \in Fields
         /\ queued'.values[last'.key] = defaultValues[last'.key]
         /\ \A other \in Fields \ {last'.key} : queued.values[other] = defaultValues[other])
          => isPristine(queued')]_vars

\* C9: hasError is true exactly when some entry of errors is not null; a key
\* present with null counts no more than a missing key.
C9_HasErrorIffNonNull ==
  hasError(state) <=> \E name \in Keys : IsError(state.errors[name])

C9_Witness ==
  /\ state.errors["age"] = NullRaw
  /\ state.errors["form"] = Absent
  /\ ~hasError(state)

\* C10: while mounted, a validation of a field that resolves leaves no error
\* at errors[name] and one that rejects leaves its reason (as merged): at once
\* outside a UI event handler, and after the handler's commit inside one, also
\* when the handler goes on to call an operation on another key.
C10_Validated == last.key \in Fields /\ last.onResolve + last.onReject = 1

C10_Outcome == IF last.onResolve = 1 THEN NullRaw ELSE Recorded(last.key, last.reason)

C10_ValidationOutcome ==
  [][/\ (C10_Validated /\ canSetStateFromAsync /\ ~batching
           => state.errors[last.key] = C10_Outcome)'
     /\ (C10_Validated /\ canSetStateFromAsync /\ batching /\ last'.op = "flush")
           => state'.errors[last.key] = C10_Outcome
     /\ (C10_Validated /\ canSetStateFromAsync /\ batching
           /\ last'.op \in {"change", "validate", "submit"} /\ last'.key # last.key)
           => queued'.errors[last.key] = C10_Outcome]_vars

\* C11: submit sets isSubmitting; while mounted, the completion of a submission
\* leaves isSubmitting false and errors.form cleared (resolved) or holding the
\* merged rejection payload (rejected): at once outside a UI event handler, and
\* after the handler's commit inside one, also when the handler goes on to
\* change or validate a field.
C11_Submitted == last.key = "form" /\ last.onResolve + last.onReject = 1

C11_Outcome == IF last.onResolve = 1 THEN NullRaw ELSE Recorded("form", last.reason)

\* errors.form of s shows the outcome: the payload, or no error
C11_Shown(s) ==
  IF IsError(C11_Outcome) THEN s.errors["form"] = C11_Outcome ELSE ~IsError(s.errors["form"])

C11_SubmitCompletes ==
  [][/\ (last.op = "submit" /\ last.result = "promise" => queued.isSubmitting)'
     /\ (C11_Submitted /\ canSetStateFromAsync /\ ~batching
           => ~state.isSubmitting /\ C11_Shown(state))'
     /\ (C11_Submitted /\ canSetStateFromAsync /\ batching /\ last'.op = "flush")
           => ~state'.isSubmitting /\ C11_Shown(state')
     /\ (C11_Submitted /\ canSetStateFromAsync /\ batching
           /\ last'.op \in {"change", "validate"})
           => ~queued'.isSubmitting /\ C11_Shown(queued')]_vars

\* C12: change and validate with a name that is not a declared field change
\* none of values, errors, isSubmitting (committed or batched), call no
\* validator, start nothing and throw nothing.
C12_UndeclaredNoOp ==
  [][(last'.op \in {"change", "validate"} /\ last'.key \notin Fields)
       => /\ state' = state
          /\ queued' = queued
          /\ pending' = pending
          /\ last'.invoked = 0
          /\ last'.writes = <<>>
          /\ ~last'.escaped]_vars

C12_Witness ==
  /\ last.op = "change"
  /\ last.key = "nick"
  /\ last.value = "0"
  /\ lifecycle = "mounted"
  /\ state.values["age"] = ""
  /\ pending # <<>>

\* C13: the fields of values, committed or batched, are the fields of
\* defaultValues in every reachable state.
C13_FieldsFixed ==
  /\ DOMAIN state.values = DOMAIN defaultValues
  /\ DOMAIN queued.values = DOMAIN defaultValues

C13_Witness ==
  /\ lifecycle = "unmounted"
  /\ last.op = "settle"
  /\ state.values["email"] = "0"
  /\ state.values["age"] = ""
  /\ state.errors["form"] # Absent
  /\ DOMAIN state.values = {"email", "age"}

\* C14: the snapshot a change hands to the validator has newValue at name and,
\* at every other field, the value the most recent change assigned to it: the
\* committed value outside a UI event handler, and the value of the change just
\* before it also when both are calls of one handler.
C14_FreshSnapshot ==
  [][/\ (last.op = "change" /\ last.invoked = 1 => last.snapshot[last.key] = last.value)'
     /\ (~batching /\ last'.op = "change" /\ last'.invoked = 1)
           => \A other \in Fields \ {last'.key} : last'.snapshot[other] = state.values[other]
     /\ (/\ last.op = "change"
         /\ last.key \in Fields
         /\ last'.op = "change"
         /\ last'.invoked = 1
         /\ last'.key # last.key)
           => last'.snapshot[last.key] = last.value]_vars

\* the entry the settlement leaves at name
SettledEntry(name, settlement) ==
  IF settlement.kind = "fulfilled" THEN NullRaw ELSE Recorded(name, settlement.reason)

\* C15: while mounted, of two validations of one field in flight together the
\* one delivered last decides errors[name], whether it was started first or
\* last, and the deliveries leave values alone; so the outcome of the run for
\* an older value can stand in errors[name] beside a newer value.
C15_Outcome == IF last.onResolve = 1 THEN NullRaw ELSE Recorded(last.key, last.reason)

C15_LastDeliveredWins ==
  /\ [](lifecycle = "mounted" /\ ~batching =>
          \A i, j \in 1..Len(pending) :
            (i < j /\ pending[i].key = pending[j].key /\ pending[i].key \in Fields) =>
              \A si, sj \in Settlements :
                LET name == pending[i].key
                    c == Entering("settle", name, FALSE)
                    ij == engine(engine(c, name, si), name, sj).state
                    ji == engine(engine(c, name, sj), name, si).state
                IN /\ ij.errors[name] = SettledEntry(name, sj)
                   /\ ji.errors[name] = SettledEntry(name, si)
                   /\ ij.values = state.values
                   /\ ji.values = state.values)
  /\ [][(/\ last.op = "settle"
          /\ last'.op = "settle"
          /\ last'.key = last.key
          /\ last'.key \in Fields
          /\ lifecycle' = "mounted")
            => (state.errors[last.key] = C15_Outcome /\ state.values = queued.values)']_vars

C15_Witness ==
  /\ lifecycle = "mounted"
  /\ last.op = "settle"
  /\ last.key = "age"
  /\ last.onReject = 1
  /\ last.value = "0"
  /\ state.values["age"] = ""
  /\ state.errors["age"] = Message("too young")
  /\ \A i \in 1..Len(pending) : pending[i].key # "age"

\* the setState call of reset
ResetWrite == {"values", "errors", "isSubmitting"}

\* C16 as stated: reset, change and the start of submit make their setState
\* call whatever the value of the mounted flag.
C16_FlagIndependent ==
  [][/\ last'.op = "reset" => last'.writes = <<ResetWrite>>
     /\ (last'.op = "change" /\ last'.key \in Fields)
           => (last'.writes # <<>> /\ Head(last'.writes) = {"values"})
     /\ last'.op = "submit"
           => (last'.writes # <<>> /\ Head(last'.writes) = {"isSubmitting"})]_vars

\* C16 as amended: the completion callbacks and reset test the mounted flag and
\* make no setState call when it is cleared (reset makes its one call when it
\* is set); change and the start of submit make their setState call whatever
\* its value.
C16_ResetGuarded ==
  [][/\ (last'.op = "reset" /\ canSetStateFromAsync)
           => (last'.writes = <<ResetWrite>> /\ queued' = InitialState)
     /\ (last'.op = "reset" /\ ~canSetStateFromAsync)
           => (last'.writes = <<>> /\ state' = state /\ queued' = queued)
     /\ (last'.op = "settle" /\ ~canSetStateFromAsync) => last'.writes = <<>>
     /\ (last'.op = "settle" /\ canSetStateFromAsync) => last'.writes # <<>>
     /\ (last'.op = "change" /\ last'.key \in Fields)
           => (last'.writes # <<>> /\ Head(last'.writes) = {"values"})
     /\ last'.op = "submit"
           => (last'.writes # <<>> /\ Head(last'.writes) = {"isSubmitting"})]_vars

C16_Witness ==
  /\ lifecycle = "unmounted"
  /\ last.op = "reset"
  /\ last.wasDirty
  /\ last.writes = <<>>
  /\ state.values # defaultValues
  /\ state.isSubmitting

\* a submitter invocation is in flight
SubmitterInFlight == \E i \in 1..Len(pending) : pending[i].key = "form"

\* the last operation completed a submission
SubmissionCompleted == last.key = "form" /\ last.onResolve + last.onReject > 0

\* C17 as stated: while mounted (and outside a UI event handler, where the
\* state is what is shown), isSubmitting is true whenever a submitter
\* invocation is in flight.
C17_SubmittingWhileInFlight ==
  (lifecycle = "mounted" /\ ~batching /\ SubmitterInFlight) => state.isSubmitting

\* C17 as amended: while mounted, a submit call whose submitter is in flight
\* leaves isSubmitting true, and it stays true until the next reset or the next
\* completion of a submission; outside a UI event handler the committed state
\* is the one the calls have left.
C17_SubmittingUntilEnded ==
  [][/\ (last.op = "submit" /\ last.result = "promise" => queued.isSubmitting)'
     /\ (/\ lifecycle' = "mounted"
         /\ queued.isSubmitting
         /\ last'.op # "reset"
         /\ ~SubmissionCompleted')
           => queued'.isSubmitting
     /\ (~batching => state = queued)']_vars

C17_Witness ==
  /\ lifecycle = "mounted"
  /\ ~batching
  /\ Len(pending) = 2
  /\ pending[1].key = "form"
  /\ pending[2].key = "form"
  /\ last.op = "flush"
  /\ state.isSubmitting

\* C18: while mounted, the completion of a submission writes the outcome into
\* errors first and isSubmitting: false after it, as its last two writes, and
\* leaves errors.form showing the outcome with isSubmitting false; no write of
\* isSubmitting: false comes before the write of the outcome.
C18_MergeThenEnd ==
  (SubmissionCompleted /\ canSetStateFromAsync) =>
    LET n == Len(last.writes)
    IN /\ n >= 2
       /\ last.writes[n - 1] = {"errors"}
       /\ last.writes[n] = {"isSubmitting"}
       /\ \A i \in 1..(n - 2) : last.writes[i] = {"isSubmitting"} /\ last.op = "submit"
       /\ C11_Shown(queued)
       /\ ~queued.isSubmitting
       /\ (~batching => state = queued)

C18_Witness ==
  /\ lifecycle = "mounted"
  /\ last.op = "settle"
  /\ last.key = "form"
  /\ last.onReject = 1
  /\ last.writes = <<{"errors"}, {"isSubmitting"}>>
  /\ state.errors["form"] = Structured("server error", {"form"})
  /\ ~state.isSubmitting
  /\ SubmitterInFlight

\* C19: a change of a declared field sets values[name] to newValue and leaves
\* every other field at the value the calls before it have given it, also
\* inside a UI event handler whose earlier changes are not committed yet; a
\* change that runs no validator leaves errors and isSubmitting alone.
C19_NoLostUpdate ==
  [][/\ (last'.op = "change" /\ last'.key \in Fields)
           => /\ queued'.values[last'.key] = last'.value
              /\ \A other \in Fields \ {last'.key} :
                   queued'.values[other] = queued.values[other]
     /\ (last'.op = "change" /\ last'.invoked = 0)
           => /\ queued'.errors = queued.errors
              /\ queued'.isSubmitting = queued.isSubmitting]_vars

\* C20: reset leaves the promises in flight as they are, and while mounted a
\* completion delivered right after a reset, with no call in between, is merged
\* as any other: a rejection puts its payload (as merged) into the errors the
\* reset had emptied, and hasError is true again when that entry is an error.
C20_LateCompletionMerged ==
  [][/\ last'.op = "reset" => pending' = pending
     /\ (last'.op = "settle" /\ last'.afterReset /\ lifecycle' = "mounted")
           => /\ state = InitialState
              /\ state'.errors[last'.key] =
                   (IF last'.onResolve = 1 THEN NullRaw ELSE Recorded(last'.key, last'.reason))
              /\ state'.values = defaultValues
              /\ hasError(state') = (last'.onReject = 1
                                      /\ IsError(Recorded(last'.key, last'.reason)))]_vars

C20_Witness ==
  /\ lifecycle = "mounted"
  /\ last.op = "settle"
  /\ last.afterReset
  /\ last.onReject = 1
  /\ hasError(state)
  /\ state.values = defaultValues
  /\ state.errors["age"] = Message("too young")
  /\ state.errors["form"] = Absent
====
